---------------------------- MODULE Spec2Model ----------------------------
(* A model of the Iron Coder Project (src/src/project/mod.rs): the board   *)
(* list of its System, the manifest it saves and opens, and the background *)
(* command runs it starts.                                                 *)
(*                                                                         *)
(* Conventions.  An Option<T> is a sequence of length at most one: None is *)
(* <<>> and Some(x) is <<x>>.  The terminal buffer, a String the code only *)
(* ever appends whole "...\n" lines to, is the sequence of those lines.    *)
EXTENDS Integers, Sequences, FiniteSets, TLC

VARIABLES
    project,   \* the Project value (struct Project, mod.rs 38-49)
    fs,        \* the directories the pickers can return, and what they hold
    runs,      \* the command runs started so far: worker thread + channel
    crashed,   \* TRUE once the UI thread has panicked
    last       \* the operation that made the last step, with its input

vars == <<project, fs, runs, crashed, last>>

---------------------------------------------------------------------------
(* Bounds of the model.                                                    *)

\* the longest transcript an operation is still started on
MaxTranscript == 2
\* the longest peripheral list add_board is still called on
MaxBoards == 2
\* the number of command runs that may be started
MaxRuns == 2
\* the most lines one command writes before its stream ends
MaxLines == 1

---------------------------------------------------------------------------
(* Option<T>                                                               *)

None == <<>>
Some(x) == <<x>>
IsSome(o) == Len(o) = 1
Unwrap(o) == o[1]

---------------------------------------------------------------------------
(* Boards (crate::board::Board; the type itself is not part of mod.rs).    *)
(* A board has its defining fields, abstracted to `name`, the role flag,   *)
(* and the resources a registry entry carries: the template directory,    *)
(* the board-support-package directory and the required crates.           *)

Board(n, m, t, bsp, rc) ==
    [name |-> n, is_main_board |-> m, template_dir |-> t,
     bsp_dir |-> bsp, required_crates |-> rc]

\* Board equality: by the defining fields, not by role or resources.
BoardEq(a, b) == a.name = b.name

\* the boards of the registry shipped with the application
MainA == Board("A", TRUE, Some("tA"), None, Some(<<"x", "y">>))
PerB  == Board("B", FALSE, Some("tB"), None, Some(<<"z">>))
PerC  == Board("C", FALSE, None, None, Some(<<"w">>))
\* a board with a board-support package and no required crates
PerE  == Board("E", FALSE, None, Some("bspE"), None)
\* a second programmable board
MainD == Board("D", TRUE, None, None, None)
\* board B as a manifest of an older version describes it: no resources
ThinB == Board("B", FALSE, None, None, None)
\* board B as a later registry describes it: now a programmable board
MainB == Board("B", TRUE, Some("tB"), None, Some(<<"z">>))

\* the boards a caller passes to add_board
BoardInputs == {MainA, PerB, PerC, PerE, MainD, ThinB}

\* the registries a caller passes to load_board_resources
Registries == { <<MainA, PerB, PerC, PerE>>, <<MainA, MainB, PerC>>, <<>> }

---------------------------------------------------------------------------
(* The Project value.                                                      *)

\* a line of the terminal buffer: a message of the Project itself (run 0)
\* or line idx of command cmd of run `run`
Msg(text) == [run |-> 0, cmd |-> 0, idx |-> 0, text |-> text]
Line(r, c, i) == [run |-> r, cmd |-> c, idx |-> i, text |-> "output"]

BoardsView == "BoardsView"

SystemDefault == [main_board |-> None, boards |-> <<>>]

ProjectDefault ==
    [name |-> "", location |-> None, system |-> SystemDefault,
     code_editor |-> "default", terminal_buffer |-> <<>>,
     receiver |-> None, current_view |-> BoardsView]

\* info_logger with = for +=: the message replaces the transcript
info_logger_overwrites(p, msg) ==
    [p EXCEPT !.terminal_buffer = <<Msg(msg)>>]

info_logger(p, msg) ==
    [p EXCEPT !.terminal_buffer = Append(@, Msg(msg))]

has_main_board(p) == IsSome(p.system.main_board)

\* Vec::contains, with Board's equality
contains(boards, b) == \E i \in 1..Len(boards) : BoardEq(boards[i], b)

\* add_board without the duplicate check of the peripheral arm
add_board_no_dup_check(p, board) ==
    IF board.is_main_board
    THEN IF IsSome(p.system.main_board)
         THEN p
         ELSE [p EXCEPT !.system.main_board = Some(board)]
    ELSE [p EXCEPT !.system.boards = Append(@, board)]

\* add_board whose main arm overwrites an occupied main slot
add_board_overwrite_main(p, board) ==
    IF board.is_main_board
    THEN [p EXCEPT !.system.main_board = Some(board)]
    ELSE IF contains(p.system.boards, board)
         THEN [p EXCEPT !.terminal_buffer =
                            Append(@, Msg("project already contains that board"))]
         ELSE [p EXCEPT !.system.boards = Append(@, board)]

\* add_board that pushes a peripheral board twice
add_board_push_twice(p, board) ==
    IF board.is_main_board
    THEN IF IsSome(p.system.main_board)
         THEN p
         ELSE [p EXCEPT !.system.main_board = Some(board)]
    ELSE IF contains(p.system.boards, board)
         THEN [p EXCEPT !.terminal_buffer =
                            Append(@, Msg("project already contains that board"))]
         ELSE [p EXCEPT !.system.boards = Append(Append(@, board), board)]

\* add_board that reports the rejected second main board in the transcript
add_board_reports_second_main(p, board) ==
    IF board.is_main_board
    THEN IF IsSome(p.system.main_board)
         THEN [p EXCEPT !.terminal_buffer =
                            Append(@, Msg("project already contains a main board"))]
         ELSE [p EXCEPT !.system.main_board = Some(board)]
    ELSE IF contains(p.system.boards, board)
         THEN [p EXCEPT !.terminal_buffer =
                            Append(@, Msg("project already contains that board"))]
         ELSE [p EXCEPT !.system.boards = Append(@, board)]

add_board(p, board) ==
    IF board.is_main_board
    THEN IF IsSome(p.system.main_board)
         THEN p
         ELSE [p EXCEPT !.system.main_board = Some(board)]
    ELSE IF contains(p.system.boards, board)
         THEN [p EXCEPT !.terminal_buffer =
                            Append(@, Msg("project already contains that board"))]
         ELSE [p EXCEPT !.system.boards = Append(@, board)]

\* borrow_boards: the mutable reference to the peripheral list it returns
borrow_boards(p) == p.system.boards

\* what a caller can make of a Vec<Board> it holds by mutable reference:
\* push a board, remove the board at a position, assign to a position
VecEdits(v, inputs) ==
    {Append(v, b) : b \in inputs}
    \cup {SubSeq(v, 1, i - 1) \o SubSeq(v, i + 1, Len(v)) : i \in 1..Len(v)}
    \cup {[v EXCEPT ![i] = b] : i \in 1..Len(v), b \in inputs}

\* Iterator::find: the first registry entry equal to b, if any
find(known_boards, b) ==
    LET hits == {k \in 1..Len(known_boards) : BoardEq(known_boards[k], b)}
    IN  IF hits = {} THEN None
        ELSE Some(known_boards[CHOOSE k \in hits : \A j \in hits : k <= j])

\* load_board_resources that removes the boards the registry does not know
load_board_resources_drops_unknown(p, known_boards) ==
    [p EXCEPT !.system.boards =
        LET kept == SelectSeq(@, LAMBDA b : IsSome(find(known_boards, b)))
        IN  [i \in 1..Len(kept) |-> Unwrap(find(known_boards, kept[i]))]]

load_board_resources(p, known_boards) ==
    [p EXCEPT !.system.boards =
        [i \in 1..Len(@) |->
            IF IsSome(find(known_boards, @[i]))
            THEN Unwrap(find(known_boards, @[i]))
            ELSE @[i]]]

---------------------------------------------------------------------------
(* The file system the pickers and the manifest live in.                   *)
(* A directory holds at most one manifest file, PROJECT_FILE_NAME, and the *)
(* template entries copied into it.  A manifest file is TOML text: `valid` *)
(* says whether toml::from_str accepts it, `toml` is the document.         *)

PROJECT_FILE_NAME == ".ironcoder.toml"

Dirs == {"d1", "d2", "d3"}

\* the entries of a board's template directory
TemplateEntries(t) ==
    IF t = "tA" THEN {"tA/Cargo.toml", "tA/src"}
    ELSE IF t = "tB" THEN {"tB/Cargo.toml"}
    ELSE {}

\* what the environment decides during an operation: the directory the
\* picker returns (None: dismissed), the template entries fs_extra fails to
\* copy, whether fs::write succeeds, whether every bsp_dir/src/lib.rs reads
\* and parses
Env(pick, uncopyable, write_ok, bsp_ok) ==
    [pick |-> pick, uncopyable |-> uncopyable, write_ok |-> write_ok,
     bsp_ok |-> bsp_ok]

Picks == {None} \cup {Some(d) : d \in Dirs}

Envs ==
    {Env(pk, u, w, b) : pk \in Picks, u \in {{}, {"tB/Cargo.toml"}},
                        w \in BOOLEAN, b \in BOOLEAN}

\* Serialize for Board and System: every descriptor field, a None left out
board_to_toml(b) ==
    [name |-> b.name, is_main_board |-> b.is_main_board]
    @@ (IF IsSome(b.template_dir)
        THEN [template_dir |-> Unwrap(b.template_dir)] ELSE <<>>)
    @@ (IF IsSome(b.bsp_dir) THEN [bsp_dir |-> Unwrap(b.bsp_dir)] ELSE <<>>)
    @@ (IF IsSome(b.required_crates)
        THEN [required_crates |-> Unwrap(b.required_crates)] ELSE <<>>)

Key(doc, k) == IF k \in DOMAIN doc THEN Some(doc[k]) ELSE None

board_from_toml(doc) ==
    Board(doc.name, doc.is_main_board, Key(doc, "template_dir"),
          Key(doc, "bsp_dir"), Key(doc, "required_crates"))

system_to_toml(sys) ==
    [boards |-> [i \in 1..Len(sys.boards) |-> board_to_toml(sys.boards[i])]]
    @@ (IF IsSome(sys.main_board)
        THEN [main_board |-> board_to_toml(Unwrap(sys.main_board))] ELSE <<>>)

system_from_toml(doc) ==
    [main_board |-> IF "main_board" \in DOMAIN doc
                    THEN Some(board_from_toml(doc.main_board)) ELSE None,
     boards |-> [i \in 1..Len(doc.boards) |-> board_from_toml(doc.boards[i])]]

\* Serialize for Project with `system` marked serde(skip) as well
to_toml_skip_system(p) ==
    [name |-> p.name, current_view |-> p.current_view]
    @@ (IF IsSome(p.location) THEN [location |-> Unwrap(p.location)] ELSE <<>>)

\* derive(Serialize) for Project: the fields not marked serde(skip); the
\* TOML serializer leaves a None out
to_toml(p) ==
    [name |-> p.name, system |-> system_to_toml(p.system),
     current_view |-> p.current_view]
    @@ (IF IsSome(p.location) THEN [location |-> Unwrap(p.location)] ELSE <<>>)

\* derive(Deserialize) with serde(default): a key the document lacks, and
\* every skipped field, comes from Project::default()
from_toml(doc) ==
    [name |-> IF "name" \in DOMAIN doc THEN doc.name ELSE ProjectDefault.name,
     location |-> IF "location" \in DOMAIN doc THEN Some(doc.location)
                  ELSE ProjectDefault.location,
     system |-> IF "system" \in DOMAIN doc THEN system_from_toml(doc.system)
                ELSE ProjectDefault.system,
     code_editor |-> ProjectDefault.code_editor,
     terminal_buffer |-> ProjectDefault.terminal_buffer,
     receiver |-> ProjectDefault.receiver,
     current_view |-> IF "current_view" \in DOMAIN doc THEN doc.current_view
                      ELSE ProjectDefault.current_view]

ManifestFile(valid, doc) == [valid |-> valid, toml |-> doc]

\* an operation's outcome: the Project, the file system, whether the UI
\* thread panicked, and what the call returned
Outcome(p, f, panic, ret) == [p |-> p, fs |-> f, panic |-> panic, ret |-> ret]

has_manifest(f, dir) == IsSome(f[dir].manifest)

copy_template(f, dir, t, env) ==
    [f EXCEPT ![dir].files = @ \cup (TemplateEntries(t) \ env.uncopyable)]

write_manifest(p, f, env) ==
    IF env.write_ok
    THEN Outcome(p, [f EXCEPT ![Unwrap(p.location)].manifest =
                                  Some(ManifestFile(TRUE, to_toml(p)))],
                 FALSE, "Ok")
    ELSE Outcome(p, f, FALSE, "Err")

RECURSIVE save(_, _, _)

\* save_as that records the location before it looks for a manifest
save_as_location_first(p, f, env) ==
    IF IsSome(env.pick)
    THEN LET project_folder == Unwrap(env.pick)
             p1 == [p EXCEPT !.location = Some(project_folder)]
         IN
         IF has_manifest(f, project_folder)
         THEN Outcome([p1 EXCEPT !.terminal_buffer = Append(@,
                          Msg("beware of overwriting and existing project file!"))],
                      f, FALSE, "Ok")
         ELSE IF p1.system.boards = <<>>
              THEN Outcome(p1, f, TRUE, "panic")
              ELSE LET t == p1.system.boards[1].template_dir
                       f1 == IF IsSome(t)
                             THEN copy_template(f, project_folder, Unwrap(t), env)
                             ELSE f
                   IN  save(p1, f1, env)
    ELSE Outcome(p, f, FALSE, "Ok")

save_as(p, f, env) ==
    IF IsSome(env.pick)
    THEN LET project_folder == Unwrap(env.pick) IN
         IF has_manifest(f, project_folder)
         THEN Outcome([p EXCEPT !.terminal_buffer = Append(@,
                          Msg("beware of overwriting and existing project file!"))],
                      f, FALSE, "Ok")
         ELSE LET p1 == [p EXCEPT !.location = Some(project_folder)] IN
              IF p1.system.boards = <<>>
              THEN \* self.system.boards[0]: index out of bounds
                   Outcome(p1, f, TRUE, "panic")
              ELSE LET t == p1.system.boards[1].template_dir
                       f1 == IF IsSome(t)
                             THEN copy_template(f, project_folder, Unwrap(t), env)
                             ELSE f
                   IN  save(p1, f1, env)
    ELSE Outcome(p, f, FALSE, "Ok")

\* save that gives up, instead of calling save_as, when no location is set
save_no_delegation(p, f, env) ==
    IF p.location = None
    THEN Outcome(p, f, FALSE, "Ok")
    ELSE write_manifest(p, f, env)

save(p, f, env) ==
    IF p.location = None
    THEN save_as(p, f, env)
    ELSE write_manifest(p, f, env)

\* the file names the save_file dialog of new_file can return
NewFiles == {"main.rs"}

\* new_file: without a location only the message; else the file the
\* dialog names is created in the project folder, and create_new fails
\* with ? when it exists; a dismissed dialog is only logged
new_file(p, f, choice) ==
    IF p.location = None
    THEN Outcome(info_logger(p,
             "must save project before adding files/directories"),
             f, FALSE, "Ok")
    ELSE IF IsSome(choice)
         THEN IF Unwrap(choice) \in f[Unwrap(p.location)].files
              THEN Outcome(p, f, FALSE, "Err")
              ELSE Outcome(p, [f EXCEPT ![Unwrap(p.location)].files =
                                            @ \cup {Unwrap(choice)}],
                           FALSE, "Ok")
         ELSE Outcome(p, f, FALSE, "Ok")

---------------------------------------------------------------------------
(* Background command runs.                                                *)
(* A run is one call of run_background_commands: the commands, the worker  *)
(* thread's position in them, and the channel.  st is "next" (at the head  *)
(* of the for loop), "reading" (in the while loop of command pc), "done"   *)
(* (left the closure, tx dropped), "panicked" (the unwrap of the reader or *)
(* of a line failed in the worker, tx dropped) or "disconnected" (the      *)
(* unwrap of tx.send failed in the worker: the Receiver was gone).  chan   *)
(* holds the lines sent and not yet received; rx says whether the Receiver *)
(* still exists.  emitted counts the lines of the command being read;      *)
(* started and ended count the commands launched and the output streams    *)
(* that reached their end; exits holds the exit statuses of the latter.    *)

Cmd(sub, dir, arg) == [sub |-> sub, dir |-> dir, arg |-> arg]

NewRun(cmds) ==
    [cmds |-> cmds, pc |-> 1, st |-> "next", emitted |-> 0, chan |-> <<>>,
     rx |-> TRUE, started |-> 0, ended |-> 0, exits |-> <<>>]

\* dropping a Receiver: the lines still queued in its channel go with it
drop_receiver(rs, receiver) ==
    IF IsSome(receiver)
    THEN [rs EXCEPT ![Unwrap(receiver)].rx = FALSE,
                    ![Unwrap(receiver)].chan = <<>>]
    ELSE rs

\* what an operation that may start runs yields: the Project, the runs,
\* whether the UI thread panicked, and the command lists it submitted
Started(p, rs, panic, submitted) ==
    [p |-> p, runs |-> rs, panic |-> panic, submitted |-> submitted]

\* run_background_commands that keeps the Receiver the Project already
\* holds: the new channel's Receiver is dropped at once
run_background_commands_keep_receiver(st, cmds) ==
    IF IsSome(st.p.receiver)
    THEN Started(st.p,
                 Append(st.runs, [NewRun(cmds) EXCEPT !.rx = FALSE]),
                 st.panic,
                 Append(st.submitted, cmds))
    ELSE Started([st.p EXCEPT !.receiver = Some(Len(st.runs) + 1)],
                 Append(st.runs, NewRun(cmds)),
                 st.panic,
                 Append(st.submitted, cmds))

run_background_commands(st, cmds) ==
    Started([st.p EXCEPT !.receiver = Some(Len(st.runs) + 1)],
            Append(drop_receiver(st.runs, st.p.receiver), NewRun(cmds)),
            st.panic,
            Append(st.submitted, cmds))

build(p, rs) ==
    IF IsSome(p.location)
    THEN run_background_commands(Started(p, rs, FALSE, <<>>),
             <<Cmd("build", Unwrap(p.location), "")>>)
    ELSE Started(info_logger(p,
             "project needs a valid working directory before building"),
             rs, FALSE, <<>>)

\* load_to_board that submits the build subcommand
load_to_board_builds(p, rs) ==
    IF IsSome(p.location)
    THEN run_background_commands(Started(p, rs, FALSE, <<>>),
             <<Cmd("build", Unwrap(p.location), "")>>)
    ELSE Started(info_logger(p,
             "project needs a valid working directory before building"),
             rs, FALSE, <<>>)

load_to_board(p, rs) ==
    IF IsSome(p.location)
    THEN run_background_commands(Started(p, rs, FALSE, <<>>),
             <<Cmd("run", Unwrap(p.location), "")>>)
    ELSE Started(info_logger(p,
             "project needs a valid working directory before building"),
             rs, FALSE, <<>>)

\* do_stuff_with_pm2 over every board: the unwraps of read_to_string and
\* parse_file panic when a board has a bsp_dir whose src/lib.rs is bad
pm2_panics(boards, env) ==
    \E i \in 1..Len(boards) : IsSome(boards[i].bsp_dir) /\ ~env.bsp_ok

\* the commands built for one board that has required crates
crate_cmds(p, project_folder, rc) ==
    <<Cmd("init", project_folder, p.name)>>
    \o [k \in 1..Len(rc) |-> Cmd("add", project_folder, rc[k])]

\* the second for loop of add_crates_to_project, from board i on
RECURSIVE crates_loop(_, _, _, _)
crates_loop(st, boards, project_folder, i) ==
    IF i > Len(boards) THEN st
    ELSE IF IsSome(boards[i].required_crates)
         THEN crates_loop(
                  run_background_commands(st,
                      crate_cmds(st.p, project_folder,
                                 Unwrap(boards[i].required_crates))),
                  boards, project_folder, i + 1)
         ELSE crates_loop(st, boards, project_folder, i + 1)

add_crates_to_project(p, rs, env) ==
    IF pm2_panics(p.system.boards, env)
    THEN Started(p, rs, TRUE, <<>>)
    ELSE IF IsSome(p.location)
         THEN crates_loop(Started(p, rs, FALSE, <<>>), p.system.boards,
                          Unwrap(p.location), 1)
         ELSE Started(p, rs, FALSE, <<>>)

\* what open yields: the Project, the runs (the old Receiver is dropped
\* when the Project is replaced) and what the call returned
Opened(p, rs, ret) == [p |-> p, runs |-> rs, ret |-> ret]

\* open that falls back to the default Project when the manifest does not
\* parse
open_resets_on_error(p, rs, f, env) ==
    IF IsSome(env.pick)
    THEN LET project_folder == Unwrap(env.pick) IN
         IF ~has_manifest(f, project_folder)
         THEN Opened(p, rs, "Err")
         ELSE LET file == Unwrap(f[project_folder].manifest) IN
              IF file.valid
              THEN Opened([from_toml(file.toml) EXCEPT
                               !.location = Some(project_folder)],
                          drop_receiver(rs, p.receiver), "Ok")
              ELSE Opened(info_logger(ProjectDefault, "error opening project"),
                          drop_receiver(rs, p.receiver), "Ok")
    ELSE Opened(p, rs, "Ok")

\* read_to_string fails with ? when the folder has no manifest; a manifest
\* that does not parse is reported and the Project kept; one that parses
\* replaces *self, and with it the Receiver
open(p, rs, f, env) ==
    IF IsSome(env.pick)
    THEN LET project_folder == Unwrap(env.pick) IN
         IF ~has_manifest(f, project_folder)
         THEN Opened(p, rs, "Err")
         ELSE LET file == Unwrap(f[project_folder].manifest) IN
              IF file.valid
              THEN Opened([from_toml(file.toml) EXCEPT
                               !.location = Some(project_folder)],
                          drop_receiver(rs, p.receiver), "Ok")
              ELSE Opened(info_logger(p, "error opening project"), rs, "Ok")
    ELSE Opened(p, rs, "Ok")

\* the worker thread (the closure passed to thread::spawn), one step each

\* the worker with the failed launch skipped: it goes on to the next
\* command
worker_launch_skips_failed(run, launch_ok) ==
    IF launch_ok
    THEN [run EXCEPT !.st = "reading", !.emitted = 0, !.started = @ + 1]
    ELSE [run EXCEPT !.pc = @ + 1]

\* for cmd in commands.iter(): launch the next command
worker_launch(run, launch_ok) ==
    IF launch_ok
    THEN [run EXCEPT !.st = "reading", !.emitted = 0, !.started = @ + 1]
    ELSE [run EXCEPT !.st = "panicked"]

\* the worker with `if let` for `while let`: after one line it goes on to
\* the next command without waiting for the stream to end
worker_line_moves_on(run, r, line_ok) ==
    IF ~line_ok
    THEN [run EXCEPT !.st = "panicked", !.emitted = 0]
    ELSE IF ~run.rx
    THEN [run EXCEPT !.st = "disconnected", !.emitted = 0]
    ELSE [run EXCEPT !.chan = Append(@, Line(r, run.pc, run.emitted + 1)),
                     !.emitted = @ + 1, !.st = "next", !.pc = @ + 1]

\* lines.next() is Some(line): line.unwrap() panics on a read error, and
\* tx.send(line).unwrap() panics when the Receiver has been dropped
worker_line(run, r, line_ok) ==
    IF ~line_ok
    THEN [run EXCEPT !.st = "panicked", !.emitted = 0]
    ELSE IF ~run.rx
    THEN [run EXCEPT !.st = "disconnected", !.emitted = 0]
    ELSE [run EXCEPT !.chan = Append(@, Line(r, run.pc, run.emitted + 1)),
                     !.emitted = @ + 1]

\* the exit statuses of a command: success and a failure
ExitStatuses == {0, 1}

\* the worker without unchecked(): the reader reports a non-zero exit
\* status as an error at the end of the stream, and line.unwrap() panics
worker_eof_checked(run, status) ==
    IF status = 0
    THEN [run EXCEPT !.st = "next", !.pc = @ + 1, !.emitted = 0,
                     !.ended = @ + 1, !.exits = Append(@, status)]
    ELSE [run EXCEPT !.st = "panicked", !.emitted = 0,
                     !.exits = Append(@, status)]

\* lines.next() is None: the stream of command pc has ended; the command
\* is unchecked(), so its exit status is not looked at
worker_eof(run, status) ==
    [run EXCEPT !.st = "next", !.pc = @ + 1, !.emitted = 0, !.ended = @ + 1,
                !.exits = Append(@, status)]

\* the worker that parks at the end of the for loop instead of leaving the
\* closure: tx is never dropped
worker_exit_parks(run) == run

\* the for loop is over: "leaving thread"
worker_exit(run) == [run EXCEPT !.st = "done"]

\* the UI's drain of the receiver: one try_recv that yields a line
recv(p, rs) ==
    LET r == Unwrap(p.receiver) IN
    [p |-> [p EXCEPT !.terminal_buffer = Append(@, Head(rs[r].chan))],
     runs |-> [rs EXCEPT ![r].chan = Tail(@)]]

---------------------------------------------------------------------------
(* The state machine.                                                      *)

\* the project an earlier session saved in directory d2
OtherProject ==
    [ProjectDefault EXCEPT !.name = "other", !.location = Some("d2"),
                           !.system = [main_board |-> Some(MainA),
                                       boards |-> <<ThinB>>]]

Names == {"", "blinky"}

\* what `last` records: the operation, its board or registry argument, the
\* environment's choices, the command lists the operation submitted and
\* what it returned
Did(op, board, known, env, submitted, ret) ==
    [op |-> op, board |-> board, known |-> known, env |-> env,
     submitted |-> submitted, ret |-> ret]

Init ==
    /\ project = ProjectDefault
    /\ fs = [d \in Dirs |->
                [manifest |-> IF d = "d2"
                              THEN Some(ManifestFile(TRUE, to_toml(OtherProject)))
                              ELSE IF d = "d3"
                              THEN Some(ManifestFile(FALSE, <<>>))
                              ELSE None,
                 files |-> {}]]
    /\ runs = <<>>
    /\ crashed = FALSE
    /\ last = Did("new", None, <<>>, None, <<>>, "Ok")

\* the UI thread is alive and the transcript is within the model's bound
Ready == ~crashed /\ Len(project.terminal_buffer) < MaxTranscript

SetName ==
    /\ Ready
    /\ \E n \in Names :
         /\ project' = [project EXCEPT !.name = n]
         /\ last' = Did("borrow_name", None, <<>>, None, <<>>, n)
    /\ UNCHANGED <<fs, runs, crashed>>

AddBoard(inputs) ==
    /\ Ready
    /\ Len(project.system.boards) < MaxBoards
    /\ \E b \in inputs :
         /\ project' = add_board(project, b)
         /\ last' = Did("add_board", Some(b), <<>>, None, <<>>, "Ok")
    /\ UNCHANGED <<fs, runs, crashed>>

\* a caller takes the list by borrow_boards and edits it in place
BorrowBoards(inputs) ==
    /\ Ready
    /\ \E v \in VecEdits(borrow_boards(project), inputs) :
         /\ Len(v) <= MaxBoards
         /\ project' = [project EXCEPT !.system.boards = v]
         /\ last' = Did("borrow_boards", None, <<>>, None, <<>>, "Ok")
    /\ UNCHANGED <<fs, runs, crashed>>

LoadBoardResources(registries) ==
    /\ Ready
    /\ \E known \in registries :
         /\ project' = load_board_resources(project, known)
         /\ last' = Did("load_board_resources", None, known, None, <<>>, "Ok")
    /\ UNCHANGED <<fs, runs, crashed>>

SaveAs(envs) ==
    /\ Ready
    /\ \E env \in envs :
         LET o == save_as(project, fs, env) IN
         /\ project' = o.p
         /\ fs' = o.fs
         /\ crashed' = o.panic
         /\ last' = Did("save_as", None, <<>>, Some(env), <<>>, o.ret)
    /\ UNCHANGED runs

Save(envs) ==
    /\ Ready
    /\ \E env \in envs :
         LET o == save(project, fs, env) IN
         /\ project' = o.p
         /\ fs' = o.fs
         /\ crashed' = o.panic
         /\ last' = Did("save", None, <<>>, Some(env), <<>>, o.ret)
    /\ UNCHANGED runs

NewFile ==
    /\ Ready
    /\ \E choice \in {None} \cup {Some(n) : n \in NewFiles} :
         LET o == new_file(project, fs, choice) IN
         /\ project' = o.p
         /\ fs' = o.fs
         /\ last' = Did("new_file", None, <<>>, None, <<>>, o.ret)
    /\ UNCHANGED <<runs, crashed>>

Open(envs) ==
    /\ Ready
    /\ \E env \in envs :
         LET o == open(project, runs, fs, env) IN
         /\ project' = o.p
         /\ runs' = o.runs
         /\ last' = Did("open", None, <<>>, Some(env), <<>>, o.ret)
    /\ UNCHANGED <<fs, crashed>>

Build ==
    /\ Ready
    /\ Len(runs) < MaxRuns
    /\ LET o == build(project, runs) IN
         /\ project' = o.p
         /\ runs' = o.runs
         /\ last' = Did("build", None, <<>>, None, o.submitted, "Ok")
    /\ UNCHANGED <<fs, crashed>>

LoadToBoard ==
    /\ Ready
    /\ Len(runs) < MaxRuns
    /\ LET o == load_to_board(project, runs) IN
         /\ project' = o.p
         /\ runs' = o.runs
         /\ last' = Did("load_to_board", None, <<>>, None, o.submitted, "Ok")
    /\ UNCHANGED <<fs, crashed>>

AddCrates(envs) ==
    /\ Ready
    /\ \E env \in envs :
         LET o == add_crates_to_project(project, runs, env) IN
         /\ Len(o.runs) <= MaxRuns
         /\ project' = o.p
         /\ runs' = o.runs
         /\ crashed' = o.panic
         /\ last' = Did("add_crates_to_project", None, <<>>, Some(env),
                        o.submitted, IF o.panic THEN "panic" ELSE "Ok")
    /\ UNCHANGED fs

\* what `last` records of a step that is no call of a Project operation: a
\* step of a worker thread, or the UI's drain of the channel
Background == Did("background", None, <<>>, None, <<>>, "Ok")

WorkerStep(r, run) ==
    /\ runs' = [runs EXCEPT ![r] = run]
    /\ last' = Background
    /\ UNCHANGED <<project, fs, crashed>>

WorkerLaunch ==
    \E r \in 1..Len(runs) : \E launch_ok \in BOOLEAN :
        /\ runs[r].st = "next"
        /\ runs[r].pc <= Len(runs[r].cmds)
        /\ WorkerStep(r, worker_launch(runs[r], launch_ok))

WorkerLine ==
    \E r \in 1..Len(runs) : \E line_ok \in BOOLEAN :
        /\ runs[r].st = "reading"
        /\ runs[r].emitted < MaxLines
        /\ WorkerStep(r, worker_line(runs[r], r, line_ok))

WorkerEof(statuses) ==
    \E r \in 1..Len(runs) :
        /\ runs[r].st = "reading"
        /\ \E status \in statuses :
               WorkerStep(r, worker_eof(runs[r], status))

WorkerExit ==
    \E r \in 1..Len(runs) :
        /\ runs[r].st = "next"
        /\ runs[r].pc > Len(runs[r].cmds)
        /\ WorkerStep(r, worker_exit(runs[r]))

Recv ==
    /\ Ready
    /\ IsSome(project.receiver)
    /\ runs[Unwrap(project.receiver)].chan # <<>>
    /\ LET o == recv(project, runs) IN
         /\ project' = o.p
         /\ runs' = o.runs
    /\ last' = Background
    /\ UNCHANGED <<fs, crashed>>

\* the System model alone: add_board and load_board_resources
NextSystem ==
    \/ AddBoard(BoardInputs)
    \/ LoadBoardResources(Registries)

SpecSystem == Init /\ [][NextSystem]_vars

\* the System model with every public way to the boards: add_board,
\* load_board_resources and the list handed out by borrow_boards
NextBoards ==
    \/ AddBoard(BoardInputs)
    \/ LoadBoardResources(Registries)
    \/ BorrowBoards(BoardInputs)

SpecBoards == Init /\ [][NextBoards]_vars

\* the Project and its manifest
\* the picker's answers and the outcomes of the copy and of the write
SaveEnvs ==
    {Env(pk, u, w, TRUE) : pk \in {None, Some("d1"), Some("d2")},
                           u \in {{}, {"tB/Cargo.toml"}}, w \in BOOLEAN}

NextPersist ==
    \/ AddBoard({MainA, PerB, PerC})
    \/ SetName
    \/ SaveAs(SaveEnvs)
    \/ Save(SaveEnvs)
    \/ Build

SpecPersist == Init /\ [][NextPersist]_vars

\* the directory picker's answers with every copy and write succeeding
QuietEnvs == {Env(pk, {}, TRUE, TRUE) : pk \in {None, Some("d1")}}

\* the scenario of the pipeline specification: the boards are chosen and
\* then the project, with its main board, is saved once, before anything
\* is written to the transcript and before the first run is started
SetUp ==
    /\ runs = <<>>
    /\ project.location = None
    /\ project.terminal_buffer = <<>>

\* the command pipeline
NextPipeline ==
    \/ (SetUp /\ AddBoard({MainA, PerB, PerC}))
    \/ (SetUp /\ has_main_board(project) /\ SaveAs(QuietEnvs))
    \/ AddCrates(QuietEnvs)
    \/ Build
    \/ WorkerLaunch
    \/ WorkerLine
    \/ WorkerEof({0})
    \/ WorkerExit
    \/ Recv

SpecPipeline == Init /\ [][NextPipeline]_vars

\* no worker is running: each has left its closure or has panicked
Idle ==
    \A r \in 1..Len(runs) : runs[r].st \in {"done", "panicked", "disconnected"}

\* the command pipeline with commands that fail: the crates of one
\* peripheral board are added to a saved project, each run started when
\* the worker of the one before it is gone
NextExit ==
    \/ (SetUp /\ AddBoard({PerB}))
    \/ (SetUp /\ SaveAs(QuietEnvs))
    \/ (Idle /\ AddCrates(QuietEnvs))
    \/ WorkerLaunch
    \/ WorkerLine
    \/ WorkerEof(ExitStatuses)
    \/ WorkerExit
    \/ Recv

SpecExit == Init /\ [][NextExit]_vars

\* the command pipeline under fair scheduling: the crates of one peripheral
\* board are added to a saved project, at any time and any number of times
NextLive ==
    \/ (SetUp /\ AddBoard({PerB}))
    \/ (SetUp /\ SaveAs(QuietEnvs))
    \/ AddCrates(QuietEnvs)
    \/ WorkerLaunch
    \/ WorkerLine
    \/ WorkerEof({0})
    \/ WorkerExit
    \/ Recv

\* a spawned thread is scheduled again and again, and the stream of a
\* launched command comes to its end; nothing is assumed of the UI or of
\* its drain of the channel
SpecLive ==
    /\ Init
    /\ [][NextLive]_vars
    /\ WF_vars(WorkerLaunch)
    /\ WF_vars(WorkerEof({0}))
    /\ WF_vars(WorkerExit)

\* the directory picker's answers to open: d1 holds a manifest once the
\* Project was saved there, d2 holds one that parses, d3 one that does not
OpenEnvs == {Env(pk, {}, TRUE, TRUE) : pk \in Picks}

\* opening, building and flashing, on a Project saved or not
NextLaunch ==
    \/ AddBoard({MainA, PerB})
    \/ SaveAs(QuietEnvs)
    \/ Open(OpenEnvs)
    \/ Build
    \/ LoadToBoard

SpecLaunch == Init /\ [][NextLaunch]_vars

\* no run has been started
NoRunYet == runs = <<>>

\* every operation of the Project, without the worker threads; the
\* operations that start runs are called until one of them has started one
NextProject ==
    \/ AddBoard({MainA, PerB})
    \/ LoadBoardResources({<<MainA, PerB, PerC, PerE>>})
    \/ SaveAs(QuietEnvs)
    \/ Save(QuietEnvs)
    \/ Open(OpenEnvs)
    \/ (NoRunYet /\ Build)
    \/ (NoRunYet /\ LoadToBoard)
    \/ NewFile
    \/ (NoRunYet /\ AddCrates(QuietEnvs))

SpecProject == Init /\ [][NextProject]_vars

---------------------------------------------------------------------------
(* Properties of the System model (SpecSystem).                            *)

DuplicateNotice == Msg("project already contains that board")

\* C1: add_board of a non-main board b leaves the peripheral sequence as it
\* was and appends the notice to the transcript when a board equal to b is
\* already in the sequence, and otherwise appends b at the end of the
\* sequence, the earlier elements and the transcript unchanged.
C1_AddPeripheral ==
    [][(last'.op = "add_board" /\ ~Unwrap(last'.board).is_main_board) =>
         LET b == Unwrap(last'.board)
             old == project.system.boards
         IN  /\ project'.system.main_board = project.system.main_board
             /\ IF \E i \in 1..Len(old) : BoardEq(old[i], b)
                THEN /\ project'.system.boards = old
                     /\ project'.terminal_buffer =
                            Append(project.terminal_buffer, DuplicateNotice)
                ELSE /\ Len(project'.system.boards) = Len(old) + 1
                     /\ SubSeq(project'.system.boards, 1, Len(old)) = old
                     /\ project'.system.boards[Len(old) + 1] = b
                     /\ project'.terminal_buffer = project.terminal_buffer
      ]_vars

\* an equal board was added a second time: the list still has length 1
C1_Witness ==
    /\ last.op = "add_board"
    /\ last.board = Some(ThinB)
    /\ project.system.boards = <<PerB>>
    /\ project.terminal_buffer = <<DuplicateNotice>>

\* C2: add_board of a board flagged main leaves the main slot and the
\* peripheral sequence as they were when the main slot is occupied, and
\* puts the board in the main slot when it is empty.
C2_AddMain ==
    [][(last'.op = "add_board" /\ Unwrap(last'.board).is_main_board) =>
         /\ project'.system.boards = project.system.boards
         /\ IF IsSome(project.system.main_board)
            THEN project'.system.main_board = project.system.main_board
            ELSE project'.system.main_board = last'.board
      ]_vars

\* a second main board was offered and the first is still in the slot
C2_Witness ==
    /\ last.op = "add_board"
    /\ last.board = Some(MainD)
    /\ project.system.main_board = Some(MainA)

\* C3: the main slot is empty or holds a board flagged main, and no board
\* of the peripheral sequence is flagged main.
C3_RolesSeparate ==
    /\ IsSome(project.system.main_board) =>
           Unwrap(project.system.main_board).is_main_board
    /\ \A i \in 1..Len(project.system.boards) :
           ~project.system.boards[i].is_main_board

\* C4: no two positions of the peripheral sequence hold equal boards.
C4_NoDuplicates ==
    \A i, j \in 1..Len(project.system.boards) :
        BoardEq(project.system.boards[i], project.system.boards[j]) => i = j

\* two peripheral boards, one of them just replaced by its registry entry
C4_Witness ==
    /\ last.op = "load_board_resources"
    /\ project.system.boards = <<PerC, PerB>>
    /\ last.known = <<MainA, PerB, PerC, PerE>>

---------------------------------------------------------------------------
(* Properties of the manifest (SpecPersist).                               *)

OverwriteWarning == Msg("beware of overwriting and existing project file!")

\* what deserializing the manifest of p yields
round_trip(p) == from_toml(to_toml(p))

\* C5: deserializing the serialized Project yields a Project with the same
\* System (main board and peripheral boards), while the transcript, the
\* receiver and the code editor are not keys of the manifest and come back
\* as their defaults.
C5_RoundTrip ==
    /\ round_trip(project).system = project.system
    /\ DOMAIN to_toml(project)
           \cap {"terminal_buffer", "receiver", "code_editor"} = {}
    /\ round_trip(project).terminal_buffer = <<>>
    /\ round_trip(project).receiver = None
    /\ round_trip(project).code_editor = ProjectDefault.code_editor

\* a project with a main board, a peripheral board, a transcript and a
\* receiver has just been saved
C5_Witness ==
    /\ last.op = "save"
    /\ last.ret = "Ok"
    /\ project.system.main_board = Some(MainA)
    /\ project.system.boards = <<PerB>>
    /\ project.terminal_buffer # <<>>
    /\ IsSome(project.receiver)
    /\ fs["d1"].manifest = Some(ManifestFile(TRUE, to_toml(project)))

\* C6: save_as into a picked directory that holds a manifest writes no
\* manifest, copies no template entry, leaves the location as it was and
\* appends the warning to the transcript.
C6_SaveAsRefused ==
    [][(/\ last'.op = "save_as"
        /\ IsSome(Unwrap(last'.env).pick)
        /\ has_manifest(fs, Unwrap(Unwrap(last'.env).pick)))
       => /\ fs' = fs
          /\ project'.location = project.location
          /\ project'.terminal_buffer =
                 Append(project.terminal_buffer, OverwriteWarning)
          /\ project' = [project EXCEPT !.terminal_buffer =
                                            project'.terminal_buffer]
          /\ crashed' = crashed
      ]_vars

\* save_as was refused on d2, which holds another project's manifest, and
\* the project has no location
C6_Witness ==
    /\ last.op = "save_as"
    /\ Unwrap(last.env).pick = Some("d2")
    /\ project.location = None
    /\ project.system.boards # <<>>
    /\ project.terminal_buffer = <<OverwriteWarning>>
    /\ fs["d2"].manifest = Some(ManifestFile(TRUE, to_toml(OtherProject)))

\* C7: on a Project with no location, save() ends in the Project state, the
\* file system and the result that save_as() ends in, for every outcome of
\* the picker.
C7_SaveIsSaveAs ==
    [][(last'.op = "save" /\ project.location = None) =>
         LET o == save_as(project, fs, Unwrap(last'.env))
         IN  /\ project' = o.p
             /\ fs' = o.fs
             /\ crashed' = o.panic
             /\ last'.ret = o.ret
      ]_vars

\* save on a Project without a location picked d1, recorded it, copied the
\* template of board 0 and wrote the manifest
C7_Witness ==
    /\ last.op = "save"
    /\ Unwrap(last.env).pick = Some("d1")
    /\ project.location = Some("d1")
    /\ project.system.boards = <<PerB>>
    /\ fs["d1"].files = TemplateEntries("tB")
    /\ fs["d1"].manifest = Some(ManifestFile(TRUE, to_toml(project)))

---------------------------------------------------------------------------
(* Properties of the command pipeline (SpecPipeline).                      *)

RECURSIVE Flatten(_)
Flatten(seqs) == IF seqs = <<>> THEN <<>> ELSE Head(seqs) \o Flatten(Tail(seqs))

\* the boards of the System: the main board, if any, then the peripherals
system_boards(p) == p.system.main_board \o p.system.boards

\* the runs the last operation started
new_runs == (Len(runs) - Len(last.submitted) + 1)..Len(runs)

\* C8: one call of add_crates_to_project on a saved Project with a board
\* that declares required crates submits exactly one run, and no two
\* workers it spawned are running at the same time.
C8_SingleRun ==
    (/\ last.op = "add_crates_to_project"
     /\ last.ret = "Ok"
     /\ IsSome(project.location)
     /\ \E i \in 1..Len(system_boards(project)) :
            IsSome(system_boards(project)[i].required_crates))
    => /\ Len(last.submitted) = 1
       /\ Cardinality({r \in new_runs : runs[r].st \in {"next", "reading"}}) <= 1

\* C9: with main board A requiring x, y and the one peripheral board B
\* requiring z, add_crates_to_project submits initialize, add x, add y,
\* add z, in that order.
C9_CommandSequence ==
    (/\ last.op = "add_crates_to_project"
     /\ last.ret = "Ok"
     /\ IsSome(project.location)
     /\ project.system.main_board = Some(MainA)
     /\ project.system.boards = <<PerB>>)
    => LET dir == Unwrap(project.location) IN
       Flatten(last.submitted) =
           <<Cmd("init", dir, project.name), Cmd("add", dir, "x"),
             Cmd("add", dir, "y"), Cmd("add", dir, "z")>>

\* the lines of run r the Project has received, in the order received,
\* followed by those still in the channel
delivered(r) ==
    SelectSeq(project.terminal_buffer, LAMBDA l : l.run = r) \o runs[r].chan

Before(l1, l2) ==
    l1.cmd < l2.cmd \/ (l1.cmd = l2.cmd /\ l1.idx < l2.idx)

\* C10: within a run, the lines are received in the order the commands
\* produced them, every line of a command before any line of a later one,
\* and a command is started only when the stream of the one before it has
\* ended.
C10_LineOrder ==
    \A r \in 1..Len(runs) :
        /\ \A i, j \in 1..Len(delivered(r)) :
               i < j => Before(delivered(r)[i], delivered(r)[j])
        /\ runs[r].started <= runs[r].ended + 1
        /\ \A i \in 1..Len(delivered(r)) : delivered(r)[i].cmd <= runs[r].started

\* the Project has received the line of the first command and then the
\* line of the second command of run 1
C10_Witness ==
    /\ Len(runs) >= 1
    /\ Len(runs[1].cmds) = 2
    /\ project.terminal_buffer = <<Line(1, 1, 1), Line(1, 2, 1)>>

\* the lines of run r in a transcript
lines_of(buffer, r) == SelectSeq(buffer, LAMBDA l : l.run = r)

\* C11: a run started while an earlier one is under way replaces the
\* receiver: the earlier run's Receiver is dropped in that step, the
\* transcript never again gains a line of a run whose Receiver is dropped,
\* and every line it gains is a line of the newest run.
C11_Superseded ==
    [][/\ Len(runs') > Len(runs) =>
             /\ project'.receiver = Some(Len(runs'))
             /\ \A r \in 1..Len(runs) : ~runs'[r].rx
       /\ \A r \in 1..Len(runs) :
             ~runs[r].rx =>
                 lines_of(project'.terminal_buffer, r) =
                     lines_of(project.terminal_buffer, r)
       /\ \A i \in 1..Len(project'.terminal_buffer) :
             (i > Len(project.terminal_buffer)
              /\ project'.terminal_buffer[i].run # 0) =>
                 project'.terminal_buffer[i].run = Len(runs)
      ]_vars

\* run 1 had sent a line the UI had not received when run 2 was started:
\* the transcript holds the line of run 2 and none of run 1
C11_Witness ==
    /\ Len(runs) = 2
    /\ ~runs[1].rx
    /\ runs[1].st = "reading"
    /\ runs[1].emitted = 1
    /\ project.terminal_buffer = <<Line(2, 1, 1)>>

---------------------------------------------------------------------------
(* Properties of build, load_to_board and open (SpecLaunch).               *)

NeedsDirectory ==
    Msg("project needs a valid working directory before building")

\* C12: build and load_to_board on a Project without a location start no
\* run, leave the receiver and every field but the transcript as they were,
\* append one message to the transcript and do not panic; with a location
\* each starts exactly one run of exactly one command, the build resp. the
\* run subcommand on the location.
C12_BuildNeedsLocation ==
    [][(last'.op \in {"build", "load_to_board"}) =>
         IF project.location = None
         THEN /\ runs' = runs
              /\ last'.submitted = <<>>
              /\ project' = [project EXCEPT
                     !.terminal_buffer = Append(@, NeedsDirectory)]
              /\ fs' = fs
              /\ ~crashed'
         ELSE LET cmds == <<Cmd(IF last'.op = "build" THEN "build" ELSE "run",
                                Unwrap(project.location), "")>>
              IN  /\ Len(runs') = Len(runs) + 1
                  /\ last'.submitted = <<cmds>>
                  /\ runs'[Len(runs')] = NewRun(cmds)
                  /\ project' = [project EXCEPT !.receiver = Some(Len(runs'))]
                  /\ ~crashed'
      ]_vars

\* load_to_board without a location left its message; after the save into
\* d1 build and load_to_board each started a run of one command
C12_Witness ==
    /\ last.op = "load_to_board"
    /\ project.terminal_buffer = <<NeedsDirectory>>
    /\ Len(runs) = 2
    /\ runs[1].cmds = <<Cmd("build", "d1", "")>>
    /\ runs[2].cmds = <<Cmd("run", "d1", "")>>
    /\ project.receiver = Some(2)

OpenError == Msg("error opening project")

\* C13: open on a directory whose manifest does not parse leaves name,
\* location, System, view and receiver (and the runs) as they were, appends
\* one line to the transcript and returns Ok without a panic; on a manifest
\* that parses, name, System and view become the deserialized ones and the
\* location becomes the picked directory.
C13_Open ==
    [][(/\ last'.op = "open"
        /\ IsSome(Unwrap(last'.env).pick)
        /\ has_manifest(fs, Unwrap(Unwrap(last'.env).pick))) =>
         LET dir == Unwrap(Unwrap(last'.env).pick)
             file == Unwrap(fs[dir].manifest)
             doc == from_toml(file.toml)
         IN  IF file.valid
             THEN /\ project'.name = doc.name
                  /\ project'.system = doc.system
                  /\ project'.current_view = doc.current_view
                  /\ project'.location = Some(dir)
             ELSE /\ project'.name = project.name
                  /\ project'.location = project.location
                  /\ project'.system = project.system
                  /\ project'.current_view = project.current_view
                  /\ project'.receiver = project.receiver
                  /\ runs' = runs
                  /\ project'.terminal_buffer =
                         Append(project.terminal_buffer, OpenError)
                  /\ last'.ret = "Ok"
                  /\ ~crashed'
      ]_vars

\* the project of d2 was opened and built; opening d3, whose manifest does
\* not parse, then left all of it and the receiver of the build in place
C13_Witness ==
    /\ last.op = "open"
    /\ Unwrap(last.env).pick = Some("d3")
    /\ project.name = "other"
    /\ project.location = Some("d2")
    /\ IsSome(project.system.main_board)
    /\ Unwrap(project.system.main_board).name = "A"
    /\ Len(project.system.boards) = 1
    /\ project.receiver = Some(1)
    /\ project.terminal_buffer = <<OpenError>>

---------------------------------------------------------------------------
(* Properties of the worker thread (SpecPipeline).                         *)

\* a step of the worker of run r that is at the head of its for loop
launch_step(r) ==
    /\ last' = Background
    /\ project' = project
    /\ runs[r].st = "next"
    /\ runs[r].pc <= Len(runs[r].cmds)
    /\ runs'[r] # runs[r]

\* the worker of run r died on the launch of command pc
launch_failed(run) == run.st = "panicked" /\ run.started < run.pc

\* C14: when the launch of command k of a run fails, the worker stops
\* there: no later command of the run is ever started, the lines already
\* sent stay in the channel, from which they leave only, in order, into
\* the transcript (or with the Receiver, when a new run replaces it), and
\* the Project, the file system and the UI thread are untouched.
C14_LaunchFailure ==
    [][\A r \in 1..Len(runs) :
         /\ (launch_step(r) /\ runs'[r].started = runs[r].started) =>
                /\ launch_failed(runs'[r])
                /\ runs'[r].pc = runs[r].pc
                /\ runs'[r].chan = runs[r].chan
                /\ runs'[r].rx = runs[r].rx
                /\ fs' = fs
                /\ crashed' = crashed
         /\ launch_failed(runs[r]) =>
                /\ launch_failed(runs'[r])
                /\ runs'[r].started = runs[r].started
                /\ runs'[r].pc = runs[r].pc
                /\ \/ runs'[r].chan = runs[r].chan
                   \/ /\ runs[r].chan # <<>>
                      /\ runs'[r].chan = Tail(runs[r].chan)
                      /\ project'.terminal_buffer =
                             Append(project.terminal_buffer, Head(runs[r].chan))
                   \/ /\ ~runs'[r].rx
                      /\ runs'[r].chan = <<>>
      ]_vars

\* the launch of the second command of run 1 failed; the line of its first
\* command was received and the UI thread is alive
C14_Witness ==
    /\ Len(runs) = 1
    /\ Len(runs[1].cmds) >= 2
    /\ launch_failed(runs[1])
    /\ runs[1].pc = 2
    /\ runs[1].started = 1
    /\ project.terminal_buffer = <<Line(1, 1, 1)>>
    /\ ~crashed

\* a step of the worker of run r in which the stream of its command ends
eof_step(r) ==
    /\ last' = Background
    /\ project' = project
    /\ runs[r].st = "reading"
    /\ Len(runs'[r].exits) = Len(runs[r].exits) + 1

\* C15: when the stream of a command ends, the worker goes on to the next
\* command of the run whatever the exit status: it is at the head of the
\* for loop, one command further, with every line sent still in the
\* channel; the lines of the run are received in the order of the commands
\* also after a command that exited with a non-zero status.
C15_ExitStatus ==
    [][\A r \in 1..Len(runs) :
         /\ eof_step(r) =>
                /\ runs'[r].st = "next"
                /\ runs'[r].pc = runs[r].pc + 1
                /\ runs'[r].ended = runs[r].ended + 1
                /\ runs'[r].started = runs[r].started
                /\ runs'[r].chan = runs[r].chan
                /\ runs'[r].rx = runs[r].rx
         /\ (\E k \in 1..Len(runs[r].exits) : runs[r].exits[k] # 0) =>
                \A i, j \in 1..Len(delivered(r)) :
                    i < j => Before(delivered(r)[i], delivered(r)[j])
      ]_vars

\* the first command of run 1 exited with status 1 after its line; the
\* second command was started and the lines of both were received
C15_Witness ==
    /\ Len(runs) = 1
    /\ Len(runs[1].exits) >= 1
    /\ runs[1].exits[1] = 1
    /\ runs[1].started = 2
    /\ project.terminal_buffer = <<Line(1, 1, 1), Line(1, 2, 1)>>

\* C16: the worker of a run whose Receiver was dropped is not stopped by
\* that: it does not end, with commands of its list not yet started,
\* because a line could not be sent.
C16_OrphanCompletes ==
    \A r \in 1..Len(runs) :
        ~(/\ ~runs[r].rx
          /\ runs[r].st = "disconnected"
          /\ runs[r].started < Len(runs[r].cmds))

---------------------------------------------------------------------------
(* Properties of save_as and of the rejections (SpecPersist).              *)

\* C17: a save_as that is not refused and returns, on a Project whose main
\* board has a template directory, records the picked directory and copies
\* into it the entries of the main board's template directory (those that
\* can be copied), whatever the peripheral boards are.
C17_MainTemplate ==
    [][(/\ last'.op = "save_as"
        /\ IsSome(Unwrap(last'.env).pick)
        /\ ~has_manifest(fs, Unwrap(Unwrap(last'.env).pick))
        /\ ~crashed'
        /\ has_main_board(project)
        /\ IsSome(Unwrap(project.system.main_board).template_dir)) =>
         LET env == Unwrap(last'.env)
             dir == Unwrap(env.pick)
             t == Unwrap(Unwrap(project.system.main_board).template_dir)
         IN  /\ project'.location = Some(dir)
             /\ fs'[dir].files =
                    fs[dir].files \cup (TemplateEntries(t) \ env.uncopyable)
      ]_vars

\* C18: no operation of the Project panics on the UI thread, which would
\* end the process: after every operation the process is alive.
C18_NoPanic == ~crashed

\* the step is add_board of a second main board
second_main_step ==
    /\ last'.op = "add_board"
    /\ Unwrap(last'.board).is_main_board
    /\ has_main_board(project)

\* the step is add_board of a peripheral board equal to one of the list
duplicate_step ==
    /\ last'.op = "add_board"
    /\ ~Unwrap(last'.board).is_main_board
    /\ contains(project.system.boards, Unwrap(last'.board))

\* the step is save_as onto a directory that holds a manifest
overwrite_step ==
    /\ last'.op = "save_as"
    /\ IsSome(Unwrap(last'.env).pick)
    /\ has_manifest(fs, Unwrap(Unwrap(last'.env).pick))

\* C19: each rejection (a duplicate peripheral board, a second main
\* board, save_as onto an existing manifest) makes the transcript strictly
\* longer and changes no other field of the Project.
C19_RejectionsReported ==
    [][(second_main_step \/ duplicate_step \/ overwrite_step) =>
         /\ Len(project'.terminal_buffer) > Len(project.terminal_buffer)
         /\ [project' EXCEPT !.terminal_buffer = project.terminal_buffer]
                = project
      ]_vars

\* C19, amended: the rejection of a duplicate peripheral board and of a
\* save_as onto an existing manifest appends one notice to the transcript
\* and changes nothing else; the rejection of a second main board changes
\* nothing at all, the transcript included.  No rejection touches the file
\* system or the runs.
C19_RejectionsAmended ==
    [][/\ duplicate_step =>
             project' = [project EXCEPT
                 !.terminal_buffer = Append(@, DuplicateNotice)]
       /\ overwrite_step =>
             project' = [project EXCEPT
                 !.terminal_buffer = Append(@, OverwriteWarning)]
       /\ second_main_step => project' = project
       /\ (second_main_step \/ duplicate_step \/ overwrite_step) =>
             /\ fs' = fs
             /\ runs' = runs
             /\ ~crashed'
      ]_vars

\* the duplicate of B was reported and the project, with its main board A,
\* saved in d1; the second add_board(A) then left the transcript as it was
C19_Witness ==
    /\ last.op = "add_board"
    /\ last.board = Some(MainA)
    /\ project.system.main_board = Some(MainA)
    /\ project.location = Some("d1")
    /\ fs["d1"].manifest = Some(ManifestFile(TRUE, to_toml(project)))
    /\ project.terminal_buffer = <<DuplicateNotice>>

---------------------------------------------------------------------------
(* Properties of load_board_resources (SpecSystem).                        *)

\* C20: load_board_resources leaves the peripheral sequence as long as it
\* was and, position by position, puts a registry entry equal to the board
\* there when the registry has one and keeps the board otherwise; the main
\* board, the name, the location and the transcript are unchanged.
C20_ResolveFrame ==
    [][(last'.op = "load_board_resources") =>
         LET known == last'.known
             old == project.system.boards
             new == project'.system.boards
         IN  /\ Len(new) = Len(old)
             /\ \A i \in 1..Len(old) :
                    IF \E k \in 1..Len(known) : BoardEq(known[k], old[i])
                    THEN \E k \in 1..Len(known) :
                            BoardEq(known[k], old[i]) /\ new[i] = known[k]
                    ELSE new[i] = old[i]
             /\ project'.system.main_board = project.system.main_board
             /\ project'.name = project.name
             /\ project'.location = project.location
             /\ project'.terminal_buffer = project.terminal_buffer
      ]_vars

\* board B was replaced by the registry's entry for it and board E, which
\* the registry does not have, was kept in its place
C20_Witness ==
    /\ last.op = "load_board_resources"
    /\ last.known = <<MainA, MainB, PerC>>
    /\ project.system.boards = <<MainB, PerE>>

---------------------------------------------------------------------------
(* Properties of the public operations on the boards (SpecBoards).         *)

\* C21: the peripheral sequence gains, loses or exchanges a board only in
\* a step of add_board: in every step of another operation the sequence
\* keeps its length and every position keeps a board equal to the one it
\* held.
C21_OnlyAddBoard ==
    [][LET old == project.system.boards
           new == project'.system.boards
       IN  (\/ Len(new) # Len(old)
            \/ \E i \in 1..Len(old) : ~BoardEq(new[i], old[i]))
           => last'.op = "add_board"
      ]_vars

---------------------------------------------------------------------------
(* Termination of the worker thread (SpecLive).                            *)

\* no unwrap has failed in a worker
NoFailure ==
    \A r \in 1..Len(runs) : runs[r].st \notin {"panicked", "disconnected"}

\* the worker of run 1 has left the closure after its last command
worker_left ==
    /\ Len(runs) >= 1
    /\ runs[1].st = "done"
    /\ runs[1].pc = Len(runs[1].cmds) + 1
    /\ runs[1].started = Len(runs[1].cmds)
    /\ runs[1].ended = Len(runs[1].cmds)

IsPrefix(s1, s2) == Len(s1) <= Len(s2) /\ SubSeq(s2, 1, Len(s1)) = s1

\* C22: in a behaviour in which no unwrap of a worker fails and no second
\* run is started, the worker of the run eventually leaves the closure
\* after its last command, whatever the UI does; and as long as the
\* Receiver of a run exists no line of the run is lost: each line sent is
\* put behind the lines sent before and stays in the channel until it is
\* received into the transcript.
C22_WorkerExits ==
    /\ [](NoFailure /\ Len(runs) <= 1) => [](Len(runs) = 1 => <>worker_left)
    /\ [][\A r \in 1..Len(runs) :
             /\ (runs[r].rx /\ runs'[r].rx) =>
                    IsPrefix(delivered(r), delivered(r)')
             /\ (runs'[r].st = "reading" /\ runs'[r].emitted = runs[r].emitted + 1)
                    => delivered(r)' = Append(delivered(r),
                                             Line(r, runs[r].pc, runs'[r].emitted))
         ]_vars

\* the worker of the only run has left after its two commands; the line of
\* the first was received and the line of the second is still queued
C22_Witness ==
    /\ Len(runs) = 1
    /\ Len(runs[1].cmds) = 2
    /\ worker_left
    /\ project.terminal_buffer = <<Line(1, 1, 1)>>
    /\ runs[1].chan = <<Line(1, 2, 1)>>

---------------------------------------------------------------------------
(* Properties of the transcript (SpecProject).                             *)

\* the step is an open that read a manifest that parses
open_replaced ==
    /\ last'.op = "open"
    /\ IsSome(Unwrap(last'.env).pick)
    /\ has_manifest(fs, Unwrap(Unwrap(last'.env).pick))
    /\ Unwrap(fs[Unwrap(Unwrap(last'.env).pick)].manifest).valid

\* C23: every operation of the Project leaves the transcript it found as
\* a prefix of the transcript it leaves, but for the open that replaces
\* the Project, after which the transcript is empty.
C23_AppendOnly ==
    [][IF open_replaced
       THEN project'.terminal_buffer = <<>>
       ELSE IsPrefix(project.terminal_buffer, project'.terminal_buffer)
      ]_vars

\* build without a location left its message and the open of d3, whose
\* manifest does not parse, put its own behind it
C23_Witness ==
    /\ last.op = "open"
    /\ Unwrap(last.env).pick = Some("d3")
    /\ project.terminal_buffer = <<NeedsDirectory, OpenError>>

===========================================================================
